---- MODULE Spec2Model ----
(***************************************************************************)
(* Model of InfraUtilX's stack / access utilities:                         *)
(*   infrastructure/utils/ip.py            get_local_public_ip, CIDR helper *)
(*   infrastructure/utils/stack_manager.py StackManager                     *)
(*   scripts/manage_access.py              the access CLI                   *)
(* The external collaborators (the two address-lookup endpoints, the       *)
(* pulumi executable and its backend, the cloud firewall) are modelled by  *)
(* the responses they can give; every response is an input of the step     *)
(* that receives it.                                                        *)
(***************************************************************************)
EXTENDS Integers, Sequences, FiniteSets, TLC

\* ------------------------------------------------------------------------
\* Bounds of the model
\* ------------------------------------------------------------------------
\* number of top-level invocations in one behaviour
MaxCalls == 2

\* ------------------------------------------------------------------------
\* Values
\* ------------------------------------------------------------------------
\* Python's None
None == "None"

\* public addresses the lookup endpoints can report
IPs == {"203.0.113.42", "198.51.100.7"}

\* requests.get(url): raises, or returns a response with status and body
Raise == [raises |-> TRUE, status_code |-> 0, text |-> ""]

Resp(status, text) == [raises |-> FALSE, status_code |-> status, text |-> text]

Responses == {Raise, Resp(500, "Internal Server Error")} \cup {Resp(200, ip) : ip \in IPs}

PrimaryUrl == "https://api.ipify.org"

SecondaryUrl == "https://ifconfig.me"

\* ------------------------------------------------------------------------
\* infrastructure/utils/ip.py
\* ------------------------------------------------------------------------
\* get_local_public_ip(): the value returned and the requests made, given
\* what each endpoint answers when asked.
get_local_public_ip(primary, secondary) ==
    IF ~primary.raises
    THEN [ip |-> IF primary.status_code = 200 THEN primary.text ELSE None,
          requests |-> <<PrimaryUrl>>]
    ELSE IF ~secondary.raises
         THEN [ip |-> IF secondary.status_code = 200 THEN secondary.text ELSE None,
               requests |-> <<PrimaryUrl, SecondaryUrl>>]
         ELSE [ip |-> None, requests |-> <<PrimaryUrl, SecondaryUrl>>]

\* a variant that always appends the single-address suffix
FormatSingleAddress(ip, suffix) == ip \o "/32"

\* format_cidr_from_ip(ip, suffix): f"{ip}{suffix}"
format_cidr_from_ip(ip, suffix) == ip \o suffix

DefaultSuffix == "/32"

\* the arguments format_cidr_from_ip is called with: str(None) is "None"
CidrIps == IPs \cup {"", None}

CidrSuffixes == {"/32", "/24", ""}

\* ------------------------------------------------------------------------
\* infrastructure/utils/tags.py
\* ------------------------------------------------------------------------
TagKeys == {"Project", "Environment", "Owner"}

TagValues == {"infra", "custom"}

\* an Optional[Dict[str, str]] argument: None, or a dict with its items
NoTags == [none |-> TRUE, items |-> <<>>]

Dict(items) == [none |-> FALSE, items |-> items]

TagArgs == {NoTags} \cup { Dict(m) : m \in UNION { [ks -> TagValues] : ks \in SUBSET TagKeys } }

\* `if tags:` is false for None and for the empty dict
TruthyTags(tags) == ~tags.none /\ DOMAIN tags.items # {}

\* a variant of dict.update that keeps the values already present
DictSetDefault(result, other) ==
    [k \in DOMAIN result \cup DOMAIN other |->
        IF k \in DOMAIN result THEN result[k] ELSE other[k]]

\* result.update(other): the items of result afterwards
DictUpdate(result, other) ==
    [k \in DOMAIN result \cup DOMAIN other |->
        IF k \in DOMAIN other THEN other[k] ELSE result[k]]

\* merge_tags(default_tags, custom_tags): the new dict returned, and the two
\* arguments as the call leaves them (it writes to result only)
merge_tags(default_tags, custom_tags) ==
    LET empty == <<>>
        with_default == IF TruthyTags(default_tags)
                        THEN DictUpdate(empty, default_tags.items) ELSE empty
        result == IF TruthyTags(custom_tags)
                  THEN DictUpdate(with_default, custom_tags.items) ELSE with_default
    IN  [result |-> result, default_tags |-> default_tags, custom_tags |-> custom_tags]

\* ------------------------------------------------------------------------
\* String helpers (str.split, str.startswith)
\* ------------------------------------------------------------------------
RECURSIVE SplitFrom(_, _, _, _)
\* the pieces of s[start..] between occurrences of the one-character sep;
\* i scans, start is where the current piece begins
SplitFrom(s, sep, start, i) ==
    IF i > Len(s) THEN <<SubSeq(s, start, Len(s))>>
    ELSE IF SubSeq(s, i, i) = sep
         THEN <<SubSeq(s, start, i - 1)>> \o SplitFrom(s, sep, i + 1, i + 1)
         ELSE SplitFrom(s, sep, start, i + 1)

Split(s, sep) == SplitFrom(s, sep, 1, 1)

\* equality taken for the prefix test
StartsWithWhole(s, prefix) == s = prefix

StartsWith(s, prefix) ==
    /\ Len(prefix) <= Len(s)
    /\ SubSeq(s, 1, Len(prefix)) = prefix

\* ------------------------------------------------------------------------
\* The deployed world seen through the orchestration tool
\* ------------------------------------------------------------------------
SgIds == {"sg-12345", "sg-67890"}

\* one entry of `pulumi stack ls --all --json`; a missing key is None
RawEntry(name, project, upd, n) ==
    [name |-> name, projectName |-> project, lastUpdate |-> upd, resourceCount |-> n]

RawTest == RawEntry("dev/test-stack", "infrautilx-example", "2023-05-15T10:30:00Z", 10)

RawAnother == RawEntry("dev/another-stack", "another-project", "2023-05-16T11:45:00Z", 5)

RawBare == RawEntry("dev/bare", "infrautilx-bare", "2023-05-17T09:00:00Z", 1)

RawNoName == RawEntry(None, "infrautilx-example", None, 0)

\* the listings the tool can hold
RawListings == { <<RawTest, RawAnother>>, <<RawBare, RawNoName, RawTest>> }

\* a stack's published outputs; a key the stack does not export is None
Outputs(sg, ip) == [security_group_id |-> sg, public_ip |-> ip]

NoOutputs == Outputs(None, None)

\* what each deployed stack exports, by its project/stack name
TrueOutputs(full_stack_name) ==
    CASE full_stack_name = "infrautilx-example/dev/test-stack" -> Outputs("sg-12345", "203.0.113.10")
      [] full_stack_name = "another-project/dev/another-stack" -> Outputs("sg-67890", None)
      [] full_stack_name = "infrautilx-bare/dev/bare" -> Outputs(None, "203.0.113.11")
      [] OTHER -> NoOutputs

\* the result of one subprocess.run: exit status, and stdout as JSON text
\* (json = FALSE is text json.loads rejects)
Completed(rc, isJson, value) == [returncode |-> rc, stdout |-> [json |-> isJson, value |-> value]]

Failed == Completed(1, FALSE, NoOutputs)

\* subprocess.run did not complete: it raised exc (the executable vanished
\* or cannot be started)
RunRaised(exc) == [raises |-> exc]

Raises(result) == "raises" \in DOMAIN result

\* how the tool answers the two `stack output` attempts and the fallback
\* program for one stack
OutputEnv(short, full, fallback) == [short |-> short, full |-> full, fallback |-> fallback]

OutputEnvs(full_stack_name) ==
    LET o == TrueOutputs(full_stack_name)
    IN  { OutputEnv(Completed(0, TRUE, o), Failed, NoOutputs),
          OutputEnv(Failed, Completed(0, TRUE, o), NoOutputs),
          OutputEnv(Failed, Completed(0, FALSE, NoOutputs), NoOutputs),
          OutputEnv(Failed, Failed, o),
          OutputEnv(Failed, Failed, NoOutputs) }

\* the names list_stacks gives to the entries of a raw listing
FullNames(raw) ==
    { raw[i].projectName \o "/" \o raw[i].name :
        i \in { j \in 1..Len(raw) : raw[j].name # None /\ raw[j].projectName # None } }

\* stack_name.split('/') for the stack names that occur, tabulated
SplitName == [n \in UNION { FullNames(raw) : raw \in RawListings } |-> Split(n, "/")]

\* ------------------------------------------------------------------------
\* StackManager._get_stack_outputs, StackManager.list_stacks
\* ------------------------------------------------------------------------
\* a variant that asks under the full name whatever the first attempt gave
GetOutputsTryingBoth(installed, stack_name, env) ==
    IF ~installed THEN [outputs |-> NoOutputs, tried |-> <<>>, fallback |-> FALSE]
    ELSE LET parts == SplitName[stack_name]
             result == IF env.short.returncode # 0 THEN env.full ELSE env.short
         IN  [outputs |-> IF result.returncode # 0 THEN env.fallback
                          ELSE IF result.stdout.json THEN result.stdout.value ELSE NoOutputs,
              tried |-> <<parts[2], stack_name>>,
              fallback |-> result.returncode # 0]

\* _get_stack_outputs(stack_name): the outputs returned, and the --stack
\* arguments tried and whether the fallback program was run
_get_stack_outputs(installed, stack_name, env) ==
    IF ~installed THEN [outputs |-> NoOutputs, tried |-> <<>>, fallback |-> FALSE]
    ELSE LET parts == SplitName[stack_name] IN
         IF Len(parts) < 2 THEN [outputs |-> NoOutputs, tried |-> <<>>, fallback |-> FALSE]
         ELSE LET stack_name_only == parts[2]
                  first  == env.short
                  tried  == IF first.returncode # 0 THEN <<stack_name_only, stack_name>>
                                                    ELSE <<stack_name_only>>
                  result == IF first.returncode # 0 THEN env.full ELSE first
              IN  IF result.returncode = 0
                  THEN [outputs |-> IF result.stdout.json THEN result.stdout.value ELSE NoOutputs,
                        tried |-> tried, fallback |-> FALSE]
                  ELSE [outputs |-> env.fallback, tried |-> tried, fallback |-> TRUE]

\* `if stack_info:` - a non-empty outputs mapping
Truthy(outputs) == outputs # NoOutputs

RECURSIVE DetailedStacks(_, _, _)
\* the loop of list_stacks over the (filtered) raw entries
DetailedStacks(stacks, installed, outEnv) ==
    IF stacks = <<>> THEN <<>>
    ELSE LET stack == Head(stacks)
             stack_name == stack.name
             project_name == stack.projectName
         IN  IF stack_name = None \/ project_name = None
             THEN DetailedStacks(Tail(stacks), installed, outEnv)
             ELSE LET full_stack_name == project_name \o "/" \o stack_name
                      stack_info == _get_stack_outputs(installed, full_stack_name,
                                                       outEnv[full_stack_name]).outputs
                  IN  IF Truthy(stack_info)
                      THEN << [name |-> full_stack_name,
                               project |-> project_name,
                               last_update |-> stack.lastUpdate,
                               resources |-> stack.resourceCount,
                               outputs |-> stack_info] >>
                           \o DetailedStacks(Tail(stacks), installed, outEnv)
                      ELSE DetailedStacks(Tail(stacks), installed, outEnv)

\* the exception raised inside the try block of list_stacks, None if none:
\* subprocess.run raising, or json.loads rejecting the output
ListStacksRaised(ls) ==
    IF Raises(ls) THEN ls.raises
    ELSE IF ls.returncode = 0 /\ ~ls.stdout.json THEN "JSONDecodeError"
    ELSE None

\* a handler list that lets everything but a json.JSONDecodeError through
HandlesJsonOnly(exc) == exc = "JSONDecodeError"

\* the except clauses of list_stacks: json.JSONDecodeError, then Exception
ListStacksHandles(exc) == exc = "JSONDecodeError" \/ exc \in {"OSError", "JSONDecodeError"}

\* the exception list_stacks lets through to its caller, None if none
ListStacksEscapes(installed, ls) ==
    IF installed /\ ListStacksRaised(ls) # None /\ ~ListStacksHandles(ListStacksRaised(ls))
    THEN ListStacksRaised(ls)
    ELSE None

\* list_stacks(): ls is the result of `pulumi stack ls --all --json`
list_stacks(installed, project_filter, ls, outEnv) ==
    IF ~installed THEN <<>>
    ELSE IF Raises(ls) THEN <<>>
    ELSE IF ls.returncode # 0 THEN <<>>
    ELSE IF ~ls.stdout.json THEN <<>>
    ELSE LET stacks == IF project_filter # None /\ project_filter # ""
                       THEN SelectSeq(ls.stdout.value,
                                LAMBDA s : StartsWith(IF s.projectName = None THEN ""
                                                      ELSE s.projectName, project_filter))
                       ELSE ls.stdout.value
         IN  DetailedStacks(stacks, installed, outEnv)

\* the calls of _get_stack_outputs one list_stacks run makes (line 78), by
\* the full_stack_name each is made with, and what each call did
OutputCalls(installed, project_filter, ls, outEnv) ==
    IF ~installed THEN <<>>
    ELSE IF Raises(ls) THEN <<>>
    ELSE IF ls.returncode # 0 THEN <<>>
    ELSE IF ~ls.stdout.json THEN <<>>
    ELSE LET stacks == IF project_filter # None /\ project_filter # ""
                       THEN SelectSeq(ls.stdout.value,
                                LAMBDA s : StartsWith(IF s.projectName = None THEN ""
                                                      ELSE s.projectName, project_filter))
                       ELSE ls.stdout.value
         IN  [n \in FullNames(stacks) |-> _get_stack_outputs(installed, n, outEnv[n])]

\* the answers `pulumi stack ls` can give while the tool holds listing raw
LsResults(raw) == { RunRaised("OSError"), Completed(1, FALSE, <<>>), Completed(0, FALSE, <<>>),
                    Completed(0, TRUE, raw) }

\* the answers to the output queries of one list_stacks run
OutEnvs(raw) == { f \in [FullNames(raw) -> UNION { OutputEnvs(n) : n \in FullNames(raw) }] :
                    \A n \in FullNames(raw) : f[n] \in OutputEnvs(n) }

\* the answers of the tool to one list_stacks run: the listing command and,
\* when it gave a listing, the output queries
ListEnv(ls, outEnv) == [ls |-> ls, outEnv |-> outEnv]

ListEnvsOf(raw) ==
    { ListEnv(ls, [n \in FullNames(raw) |-> OutputEnv(Failed, Failed, NoOutputs)]) :
        ls \in { r \in LsResults(raw) : Raises(r) \/ r.returncode # 0 \/ ~r.stdout.json } }
    \cup { ListEnv(Completed(0, TRUE, raw), f) : f \in OutEnvs(raw) }

\* no answers (no list_stacks run)
NoListEnv == ListEnv(Failed, <<>>)

\* the same, tabulated for the listings that occur
ListEnvs == [raw \in RawListings |-> ListEnvsOf(raw)]

\* ------------------------------------------------------------------------
\* The firewall and the throwaway query project (temp_sg_query)
\* ------------------------------------------------------------------------
\* one ingress permission of a security group
Ingress(protocol, from_port, to_port, cidr_blocks) ==
    [protocol |-> protocol, from_port |-> from_port, to_port |-> to_port,
     cidr_blocks |-> cidr_blocks]

\* the firewall rules at the start
InitialIngress ==
    [sg \in SgIds |->
        IF sg = "sg-12345"
        THEN << Ingress("tcp", 22, 22, <<"198.51.100.0/32">>),
                Ingress("tcp", 80, 80, <<"0.0.0.0/0", "203.0.113.42/32">>) >>
        ELSE << Ingress("udp", 22, 22, <<"203.0.113.42/32">>),
                Ingress("tcp", 22, 22, <<"198.51.100.7/32">>) >>]

\* the elements of a sequence
Range(seq) == { seq[i] : i \in 1..Len(seq) }

\* the stack "dev" of project sg-query on the backend: whether it exists and
\* the ingress_rules its last successful `pulumi up` exported (of is the
\* security group that export was read from; has = FALSE: nothing exported)
QueryStack(exists, has, of, ingress_rules) ==
    [exists |-> exists, has |-> has, of |-> of, ingress_rules |-> ingress_rules]

NoQueryStack == QueryStack(FALSE, FALSE, None, <<>>)

\* how the tool answers init, up and `stack output` of one rule query
QueryEnv(init, up, output) == [init |-> init, up |-> up, output |-> output]

QueryEnvs == { QueryEnv(i, u, o) : i \in BOOLEAN, u \in BOOLEAN,
                                  o \in {"ok", "fail", "garbage"} }

\* `pulumi stack init dev` then `pulumi up --yes` in temp_sg_query: the
\* backend stack afterwards.  init creates the stack unless it exists; up
\* runs the staged program (which reads security group program_sg) in the
\* selected stack and, when it succeeds, replaces the stack's exports.
QueryBackendAfter(stack, program_sg, live, env) ==
    LET created == IF ~stack.exists /\ env.init
                   THEN QueryStack(TRUE, FALSE, None, <<>>) ELSE stack
    IN  IF created.exists /\ env.up /\ program_sg \in DOMAIN live
        THEN QueryStack(TRUE, TRUE, program_sg, live[program_sg])
        ELSE created

\* `pulumi stack output --json --cwd temp_sg_query`
QueryOutput(stack, env) ==
    IF ~stack.exists \/ env.output = "fail" THEN Completed(1, FALSE, <<>>)
    ELSE IF env.output = "garbage" THEN Completed(0, FALSE, <<>>)
    ELSE Completed(0, TRUE, IF stack.has THEN stack.ingress_rules ELSE <<>>)

\* ------------------------------------------------------------------------
\* StackManager._get_security_group_rules, StackManager.check_access
\* ------------------------------------------------------------------------
\* the conversion of one exported rule (stack_manager.py 371-375)
ToRule(rule) ==
    [protocol |-> rule.protocol, port |-> rule.from_port, cidr_blocks |-> rule.cidr_blocks]

\* lines 365-383: the rules returned for the output command's result
RulesFromOutput(output_result) ==
    IF output_result.returncode = 0 /\ output_result.stdout.json
    THEN [i \in 1..Len(output_result.stdout.value) |-> ToRule(output_result.stdout.value[i])]
    ELSE <<>>

\* a variant that takes every rule for an SSH rule
MatchesAnyPort(rule) == TRUE

\* `if rule.get("port") == 22` (stack_manager.py 274)
MatchesSsh(rule) == rule.port = 22

RECURSIVE AuthorizedIps(_)
\* authorized_ips after the loop of check_access over sg_rules
AuthorizedIps(sg_rules) ==
    IF sg_rules = <<>> THEN <<>>
    ELSE (IF MatchesSsh(Head(sg_rules)) THEN Head(sg_rules).cidr_blocks ELSE <<>>)
         \o AuthorizedIps(Tail(sg_rules))

RECURSIVE HasAccess(_, _)
\* has_access after the loop of check_access over sg_rules
HasAccess(sg_rules, current_cidr) ==
    IF sg_rules = <<>> THEN FALSE
    ELSE \/ /\ MatchesSsh(Head(sg_rules))
            /\ current_cidr \in Range(Head(sg_rules).cidr_blocks)
         \/ HasAccess(Tail(sg_rules), current_cidr)

\* the AccessStatus appended for one stack (stack_manager.py 280-286)
AccessEntry(stack, sg_id, sg_rules, current_cidr) ==
    [stack_name |-> stack.name,
     security_group_id |-> sg_id,
     has_access |-> HasAccess(sg_rules, current_cidr),
     current_ip |-> current_cidr,
     authorized_ips |-> AuthorizedIps(sg_rules)]

\* a variant that forgets the filter by name
SelectStacksAll(stacks, stack_name) == stacks

\* `if stack_name: stacks = [s for s in stacks if s["name"] == stack_name]`
SelectStacks(stacks, stack_name) ==
    IF stack_name # None /\ stack_name # ""
    THEN SelectSeq(stacks, LAMBDA s : s.name = stack_name)
    ELSE stacks

\* ------------------------------------------------------------------------
\* The throwaway update project (temp_sg_update) and the mutating run
\* ------------------------------------------------------------------------
\* the program staged by update_ip_access: one tcp/22 rule for cidr on sg
UpdateProgram(sg, cidr) == [sg |-> sg, cidr |-> cidr]

NoProgram == UpdateProgram(None, None)

\* the firewall already holds the permission the program would create
Duplicate(live, program) ==
    \E i \in 1..Len(live[program.sg]) :
        LET r == live[program.sg][i]
        IN  /\ r.protocol = "tcp" /\ r.from_port = 22 /\ r.to_port = 22
            /\ program.cidr \in Range(r.cidr_blocks)

\* the permissions of one group after authorising tcp/22 from cidr: the
\* source joins the existing tcp/22 permission, or a new permission is made
AddSsh(rules, cidr) ==
    IF \E i \in 1..Len(rules) :
          rules[i].protocol = "tcp" /\ rules[i].from_port = 22 /\ rules[i].to_port = 22
    THEN [i \in 1..Len(rules) |->
            IF rules[i].protocol = "tcp" /\ rules[i].from_port = 22 /\ rules[i].to_port = 22
            THEN [rules[i] EXCEPT !.cidr_blocks = Append(@, cidr)]
            ELSE rules[i]]
    ELSE Append(rules, Ingress("tcp", 22, 22, <<cidr>>))

\* `pulumi up --yes` of the staged update program: exit status and the
\* firewall afterwards.  The provider rejects a permission that exists.
UpdateUp(live, program, ok) ==
    IF ok /\ program.sg \in DOMAIN live /\ ~Duplicate(live, program)
    THEN [returncode |-> 0,
          live |-> [live EXCEPT ![program.sg] = AddSsh(@, program.cidr)]]
    ELSE [returncode |-> 1, live |-> live]

\* ------------------------------------------------------------------------
\* aws_profiles/profile_manager.py: the two stores and the identity check
\* ------------------------------------------------------------------------
\* the options of one section of ~/.aws/config or ~/.aws/credentials; an
\* option the section does not set is None
NoOptions ==
    [region |-> None, sso_start_url |-> None, sso_session |-> None,
     sso_account_id |-> None, sso_role_name |-> None, role_arn |-> None,
     aws_access_key_id |-> None, credential_process |-> None]

Section(section, options) == [section |-> section, options |-> options]

\* a store: whether the file exists, whether configparser reads it, and its
\* sections in file order
Store(exists, parses, sections) == [exists |-> exists, parses |-> parses, sections |-> sections]

MissingFile == Store(FALSE, TRUE, <<>>)

\* a file configparser rejects (an option line before any section header)
MalformedFile == Store(TRUE, FALSE, <<>>)

\* a config with a default, an SSO profile that names its account, an SSO
\* profile of an sso-session, a role profile and the sso-session itself
ConfigPlain ==
    Store(TRUE, TRUE,
      << Section("default", [NoOptions EXCEPT !.region = "us-east-1"]),
         Section("profile dev", [NoOptions EXCEPT !.sso_start_url = "https://corp.awsapps.com/start",
                                                  !.sso_account_id = "111122223333",
                                                  !.sso_role_name = "Developer"]),
         Section("sso-session corp", [NoOptions EXCEPT !.sso_start_url = "https://corp.awsapps.com/start"]),
         Section("profile stage", [NoOptions EXCEPT !.sso_session = "corp"]),
         Section("profile prod", [NoOptions EXCEPT !.role_arn = "arn:aws:iam::123456789012:role/Admin",
                                                   !.region = "eu-west-1"]) >>)

\* a config where the sections "profile dev" and "dev" both stand
ConfigTwice ==
    Store(TRUE, TRUE,
      << Section("profile dev", [NoOptions EXCEPT !.sso_start_url = "https://corp.awsapps.com/start",
                                                  !.sso_account_id = "111122223333",
                                                  !.sso_role_name = "Developer"]),
         Section("dev", [NoOptions EXCEPT !.region = "us-west-2"]) >>)

ConfigFiles == {MissingFile, MalformedFile, ConfigPlain, ConfigTwice}

CredentialsPlain ==
    Store(TRUE, TRUE,
      << Section("default", [NoOptions EXCEPT !.aws_access_key_id = "AKIAEXAMPLE"]),
         Section("dev", [NoOptions EXCEPT !.aws_access_key_id = "AKIAEXAMPLE"]),
         Section("ci", [NoOptions EXCEPT !.credential_process = "/usr/local/bin/creds"]) >>)

CredentialsFiles == {MissingFile, MalformedFile, CredentialsPlain}

\* the accountId found in the SSO cache directory, None if there is none
SsoCaches == {None, "444455556666"}

\* the answer of `aws sts get-caller-identity` (one external process)
StsAnswer(returncode, account, arn) == [returncode |-> returncode, Account |-> account, Arn |-> arn]

StsAnswers ==
    { StsAnswer(255, None, ""),
      StsAnswer(0, "123456789012", "arn:aws:iam::123456789012:user/alice") }

\* sub occurs in s
Contains(s, sub) ==
    \E i \in 1..(Len(s) - Len(sub) + 1) : SubSeq(s, i, i + Len(sub) - 1) = sub

\* the section named section of a store, as a sequence of at most one
SectionsNamed(store, section) == SelectSeq(store.sections, LAMBDA x : x.section = section)

\* the section configparser keeps for a profile name
ProfileSection(profile_name) ==
    IF profile_name # "default" THEN "profile " \o profile_name ELSE "default"

\* parts[1] of role_arn.split("/"), None when there is no second part
SecondPart(arn) ==
    LET parts == Split(arn, "/") IN IF Len(parts) >= 2 THEN parts[2] ELSE None

\* os.environ lookups followed by `if profile:`
get_current_profile(aws_profile, aws_default_profile) ==
    IF aws_profile # None /\ aws_profile # "" THEN aws_profile
    ELSE IF aws_default_profile # None /\ aws_default_profile # "" THEN aws_default_profile
    ELSE None

_get_account_id_from_sts(profile_name, sts) ==
    IF sts.returncode = 0 THEN sts.Account ELSE None

_get_account_id_from_sso_cache(profile_name, config, cache) ==
    LET found == SectionsNamed(config, ProfileSection(profile_name)) IN
    IF found = <<>> THEN None
    ELSE LET profile_section == found[1].options IN
         IF profile_section.sso_account_id # None THEN profile_section.sso_account_id
         ELSE IF profile_section.sso_session = None THEN None
         ELSE cache

\* _get_identity_info(profile_name): <<auth_method, user_identity>>
_get_identity_info(profile_name, sts, config) ==
    LET arn == sts.Arn
        ok == sts.returncode = 0
        auth_method == IF ~ok THEN None
                       ELSE IF Contains(arn, "assumed-role") THEN "role"
                       ELSE IF Contains(arn, ":user/") THEN "api_key"
                       ELSE IF Contains(arn, ":federated-user/") THEN "federated"
                       ELSE None
        user_identity == IF auth_method = None THEN None ELSE SecondPart(arn)
        found == IF config.exists THEN SectionsNamed(config, ProfileSection(profile_name))
                 ELSE <<>>
    IN  IF auth_method # None \/ found = <<>> THEN <<auth_method, user_identity>>
        ELSE LET o == found[1].options IN
             IF o.sso_start_url # None \/ o.sso_session # None
             THEN <<"sso", IF o.sso_role_name # None THEN o.sso_role_name ELSE user_identity>>
             ELSE IF o.role_arn # None
             THEN <<"role", IF SecondPart(o.role_arn) # None THEN SecondPart(o.role_arn)
                            ELSE user_identity>>
             ELSE <<auth_method, user_identity>>

\* ------------------------------------------------------------------------
\* profile_manager.list_profiles
\* ------------------------------------------------------------------------
ProfileInfo(name, region, is_sso, is_default, is_active, account_id, auth_method, user_identity) ==
    [name |-> name, region |-> region, is_sso |-> is_sso, is_default |-> is_default,
     is_active |-> is_active, account_id |-> account_id, auth_method |-> auth_method,
     user_identity |-> user_identity]

\* one external process: `aws sts get-caller-identity --profile <name>`
StsCall(profile_name) == [cmd |-> "sts get-caller-identity", profile |-> profile_name]

\* configparser.read(path) raises on a file it cannot parse
ReadRaises(store) == store.exists /\ ~store.parses

\* the profile name of a config section
ConfigSectionName(section) ==
    IF section = "default" THEN "default"
    ELSE IF StartsWith(section, "profile ") THEN SubSeq(section, 9, Len(section))
    ELSE section

\* the config sections the loop skips
SkippedSection(section) ==
    /\ section # "default"
    /\ ~StartsWith(section, "profile ")
    /\ StartsWith(section, "sso-session")

\* the auth method the credentials file gives a section, else the one at hand
CredentialsAuthMethod(options, auth_method) ==
    IF options.aws_access_key_id # None THEN "api_key"
    ELSE IF options.credential_process # None THEN "external"
    ELSE auth_method

\* one pass of the loop over config.sections(): the entry appended, the
\* external processes run and the exception raised (None: none)
ConfigProfile(x, config, credentials, current_profile, fetch_all_account_ids, sts, cache) ==
    LET section == x.section
        name == ConfigSectionName(section)
        is_default == section = "default"
        is_sso == x.options.sso_start_url # None \/ x.options.sso_session # None
        is_active == current_profile = name
        sso_account == IF is_sso THEN _get_account_id_from_sso_cache(name, config, cache)
                       ELSE None
        has_role == x.options.role_arn # None
        auth_config == IF has_role THEN "role" ELSE IF is_sso THEN "sso" ELSE None
        identity_config ==
            IF has_role /\ SecondPart(x.options.role_arn) # None
            THEN SecondPart(x.options.role_arn)
            ELSE IF is_sso THEN x.options.sso_role_name ELSE None
        asks == sso_account = None /\ (fetch_all_account_ids \/ is_active)
        asks_identity == asks /\ (auth_config = None \/ identity_config = None)
        from_sts == IF asks_identity THEN _get_identity_info(name, sts, config)
                    ELSE <<None, None>>
        account_id == IF asks THEN _get_account_id_from_sts(name, sts) ELSE sso_account
        auth_sts == IF auth_config = None THEN from_sts[1] ELSE auth_config
        user_identity == IF identity_config = None THEN from_sts[2] ELSE identity_config
        reads_credentials == auth_sts = None /\ ~is_sso /\ credentials.exists
        in_credentials == SectionsNamed(credentials, name)
        auth_method == IF reads_credentials /\ credentials.parses /\ in_credentials # <<>>
                       THEN CredentialsAuthMethod(in_credentials[1].options, auth_sts)
                       ELSE auth_sts
    IN  [info |-> ProfileInfo(name, x.options.region, is_sso, is_default, is_active,
                              account_id, auth_method, user_identity),
         processes |-> (IF asks THEN <<StsCall(name)>> ELSE <<>>)
                       \o (IF asks_identity THEN <<StsCall(name)>> ELSE <<>>),
         raised |-> IF reads_credentials /\ ReadRaises(credentials) THEN "ParsingError"
                    ELSE None]

\* one pass of the loop over creds.sections() for a name not yet listed
CredentialsProfile(x, config, current_profile, fetch_all_account_ids, sts) ==
    LET section == x.section
        is_active == current_profile = section
        auth_file == CredentialsAuthMethod(x.options, None)
        asks == fetch_all_account_ids \/ is_active
        from_sts == IF asks THEN _get_identity_info(section, sts, config) ELSE <<None, None>>
    IN  [info |-> ProfileInfo(section, None, FALSE, section = "default", is_active,
                              IF asks THEN _get_account_id_from_sts(section, sts) ELSE None,
                              IF auth_file = None THEN from_sts[1] ELSE auth_file,
                              from_sts[2]),
         processes |-> IF asks THEN <<StsCall(section), StsCall(section)>> ELSE <<>>,
         raised |-> None]

\* any(p.name == section for p in profiles)
ProfileListedIn(profiles, section) == \E k \in 1..Len(profiles) : profiles[k].name = section

\* what a run of list_profiles has gathered
Gathered(profiles, processes, raised) ==
    [profiles |-> profiles, processes |-> processes, raised |-> raised]

\* the config sections the loop makes entries of, in file order
ProfileSections(config) == SelectSeq(config.sections, LAMBDA x : ~SkippedSection(x.section))

\* the passes of the loop over config.sections(), were none to raise
ConfigPasses(config, credentials, current_profile, fetch_all_account_ids, sts, cache) ==
    [i \in 1..Len(ProfileSections(config)) |->
        ConfigProfile(ProfileSections(config)[i], config, credentials, current_profile,
                      fetch_all_account_ids, sts, cache)]

\* the passes that ran to their end: those before the first that raised
PassesDone(passes) ==
    IF \A i \in 1..Len(passes) : passes[i].raised = None THEN Len(passes)
    ELSE (CHOOSE i \in 1..Len(passes) :
             /\ passes[i].raised # None
             /\ \A j \in 1..(i - 1) : passes[j].raised = None) - 1

RECURSIVE ProcessesOf(_, _, _)
\* the external processes run by passes i..n
ProcessesOf(passes, i, n) ==
    IF i > n THEN <<>> ELSE passes[i].processes \o ProcessesOf(passes, i + 1, n)

\* the loop over config.sections()
ConfigProfiles(passes) ==
    LET done == PassesDone(passes)
        raises == done < Len(passes)
    IN  Gathered([i \in 1..done |-> passes[i].info],
                 ProcessesOf(passes, 1, IF raises THEN done + 1 ELSE done),
                 IF raises THEN passes[done + 1].raised ELSE None)

\* the passes of the loop over creds.sections(): one for each section
\* whose name the config loop has not listed
CredentialsPasses(listed, config, credentials, current_profile, fetch_all_account_ids, sts) ==
    [i \in 1..Len(SelectSeq(credentials.sections, LAMBDA x : ~ProfileListedIn(listed, x.section))) |->
        CredentialsProfile(
            SelectSeq(credentials.sections, LAMBDA x : ~ProfileListedIn(listed, x.section))[i],
            config, current_profile, fetch_all_account_ids, sts)]

\* the loop over creds.sections()
CredentialsProfiles(from_config, passes) ==
    Gathered(from_config.profiles \o [i \in 1..Len(passes) |-> passes[i].info],
             from_config.processes \o ProcessesOf(passes, 1, Len(passes)),
             None)

\* list_profiles(fetch_all_account_ids): the listing, the external
\* processes it ran, and the exception it raised (None: it returned)
ListProfilesRun(config, credentials, current_profile, fetch_all_account_ids, sts, cache) ==
    LET start == Gathered(<<>>, <<>>, None)
        from_config ==
            IF ~config.exists THEN start
            ELSE IF ReadRaises(config) THEN Gathered(<<>>, <<>>, "ParsingError")
            ELSE ConfigProfiles(ConfigPasses(config, credentials, current_profile,
                                             fetch_all_account_ids, sts, cache))
    IN  IF from_config.raised # None \/ ~credentials.exists THEN from_config
        ELSE IF ReadRaises(credentials)
        THEN Gathered(from_config.profiles, from_config.processes, "ParsingError")
        ELSE CredentialsProfiles(from_config,
                 CredentialsPasses(from_config.profiles, config, credentials, current_profile,
                                   fetch_all_account_ids, sts))

\* the values get_current_profile() takes
CurrentProfiles == {None, "default", "dev", "stage", "prod", "ci"}

\* list_profiles, tabulated for the stores, environments and answers that occur
ListProfilesTable ==
    [config \in ConfigFiles |-> [credentials \in CredentialsFiles |->
        [current_profile \in CurrentProfiles |-> [fetch_all_account_ids \in BOOLEAN |->
            [sts \in StsAnswers |-> [cache \in SsoCaches |->
                ListProfilesRun(config, credentials, current_profile,
                                fetch_all_account_ids, sts, cache)]]]]]]

list_profiles(config, credentials, current_profile, fetch_all_account_ids, sts, cache) ==
    ListProfilesTable[config][credentials][current_profile][fetch_all_account_ids][sts][cache]

\* ------------------------------------------------------------------------
\* profile_manager.switch_profile, validate_profile, refresh_sso_credentials
\* ------------------------------------------------------------------------
\* a switch that takes every name for listed
ProfileListedAlways(profiles, profile_name) == TRUE

\* any(p.name == profile_name for p in profiles)
ProfileListed(profiles, profile_name) ==
    \E i \in 1..Len(profiles) : profiles[i].name = profile_name

\* lines 329-338 of switch_profile, given what list_profiles() gave
SwitchGiven(profile_name, aws_profile, r) ==
    LET found == r.raised = None /\ ProfileListed(r.profiles, profile_name)
    IN  [ret |-> found,
         AWS_PROFILE |-> IF found THEN profile_name ELSE aws_profile,
         profiles |-> r.profiles, processes |-> r.processes, raised |-> r.raised]

\* switch_profile(profile_name): the value returned, AWS_PROFILE afterwards,
\* the listing it looked at and the exception it let through
switch_profile(profile_name, aws_profile, aws_default_profile, config, credentials, sts, cache) ==
    SwitchGiven(profile_name, aws_profile,
                list_profiles(config, credentials,
                              get_current_profile(aws_profile, aws_default_profile),
                              TRUE, sts, cache))

\* lines 357-374 of validate_profile after a switch that succeeded, given
\* the outcomes of that switch and of the switch back
ValidateSwitched(there, back, provider_ok) ==
    [ret |-> provider_ok, AWS_PROFILE |-> back.AWS_PROFILE, profiles |-> there.profiles,
     processes |-> there.processes \o back.processes, raised |-> back.raised]

\* lines 353-374 of validate_profile for a profile other than the current
\* one, given the outcome of the switch to it
ValidateGiven(original_profile, aws_profile, aws_default_profile, config, credentials, sts, cache, provider_ok, there) ==
    IF there.raised # None \/ ~there.ret
    THEN [ret |-> FALSE, AWS_PROFILE |-> aws_profile, profiles |-> there.profiles,
          processes |-> there.processes, raised |-> there.raised]
    ELSE ValidateSwitched(there,
                          switch_profile(original_profile, there.AWS_PROFILE,
                                         aws_default_profile, config, credentials, sts, cache),
                          provider_ok)

\* validate_profile(profile_name); provider_ok: aws.Provider(...) did not raise
validate_profile(profile_name, aws_profile, aws_default_profile, config, credentials, sts, cache, provider_ok) ==
    LET original_profile == get_current_profile(aws_profile, aws_default_profile)
        switches == profile_name # None /\ profile_name # "" /\ profile_name # original_profile
    IN  IF ~switches
        THEN [ret |-> provider_ok, AWS_PROFILE |-> aws_profile, profiles |-> <<>>,
              processes |-> <<>>, raised |-> None]
        ELSE ValidateGiven(original_profile, aws_profile, aws_default_profile, config,
                           credentials, sts, cache, provider_ok,
                           switch_profile(profile_name, aws_profile, aws_default_profile,
                                          config, credentials, sts, cache))

\* the result of `aws sso login --profile <name>`
LoginResults == { [returncode |-> 0], [returncode |-> 1], RunRaised("OSError") }

NoLogin == [returncode |-> -1]

\* a refresh that takes every listed profile for an SSO profile
SsoClassifiedAlways(profile) == TRUE

\* profile.is_sso
SsoClassified(profile) == profile.is_sso

\* lines 388-407 of refresh_sso_credentials, given what list_profiles() gave
RefreshGiven(profile_name, login, r) ==
    LET found == SelectSeq(r.profiles, LAMBDA q : q.name = profile_name)
    IN  IF r.raised # None \/ found = <<>> \/ ~SsoClassified(found[1])
        THEN [ret |-> FALSE, logins |-> <<>>, profiles |-> r.profiles,
              processes |-> r.processes, raised |-> r.raised]
        ELSE [ret |-> ~Raises(login) /\ login.returncode = 0,
              logins |-> <<profile_name>>, profiles |-> r.profiles,
              processes |-> r.processes, raised |-> None]

\* refresh_sso_credentials(profile_name): the success flag, the login
\* commands run and the exception let through
refresh_sso_credentials(profile_name, current_profile, config, credentials, sts, cache, login) ==
    RefreshGiven(profile_name, login,
                 list_profiles(config, credentials, current_profile, TRUE, sts, cache))

\* ------------------------------------------------------------------------
\* State
\* ------------------------------------------------------------------------
VARIABLES
    pulumiInstalled,   \* shutil.which("pulumi") is not None
    rawStacks,         \* the stacks the orchestration tool holds
    sgIngress,         \* the live ingress rules of each security group
    queryStack,        \* the stack "dev" of the throwaway project sg-query
    updateStackExists, \* the stack "dev" of the throwaway project sg-update exists
    stagedQuery,       \* security group read by temp_sg_query/__main__.py
    stagedUpdate,      \* the program in temp_sg_update/__main__.py
    calls,             \* invocations started so far
    proc               \* per caller: position and locals of its invocation

\* ------------------------------------------------------------------------
\* The process environment, the two stores and the calls of the profile
\* manager
\* ------------------------------------------------------------------------
VARIABLES
    awsProfile,        \* os.environ["AWS_PROFILE"] (None: unset)
    awsDefaultProfile, \* os.environ["AWS_DEFAULT_PROFILE"] (None: unset)
    configFile,        \* ~/.aws/config
    credsFile,         \* ~/.aws/credentials
    ssoCache,          \* accountId held by ~/.aws/sso/cache (None: none)
    pres               \* the last call of the profile manager and its result

\* ------------------------------------------------------------------------
\* The callers of infrastructure/utils/tags.py and utils/ip.py
\* ------------------------------------------------------------------------
VARIABLES
    defaultTags,       \* the caller's default_tags object
    customTags,        \* the caller's custom_tags object
    util               \* the last call of a utility function and its result

stackVars == <<pulumiInstalled, rawStacks, sgIngress, queryStack, updateStackExists,
               stagedQuery, stagedUpdate, calls, proc>>

profileVars == <<awsProfile, awsDefaultProfile, configFile, credsFile, ssoCache, pres>>

utilVars == <<defaultTags, customTags, util>>

vars == <<stackVars, profileVars, utilVars>>

\* no utility call made yet
NoUtilCall ==
    [op |-> "none", default_before |-> NoTags, custom_before |-> NoTags, result |-> <<>>,
     ip |-> None, suffix |-> None, cidr |-> None]

\* the utilities before any call
UtilsAtRest ==
    /\ defaultTags = NoTags
    /\ customTags = NoTags
    /\ util = NoUtilCall

\* no call made yet
NoCall ==
    [op |-> "none", name |-> None, fetch_all |-> FALSE, before |-> None,
     before_env |-> None, ret |-> FALSE, profiles |-> <<>>, processes |-> <<>>,
     logins |-> <<>>, login |-> NoLogin, raised |-> None, exit |-> -1]

\* the profile manager before any call, in a home without AWS files
ProfilesAtRest ==
    /\ awsProfile = None
    /\ awsDefaultProfile = None
    /\ configFile = MissingFile
    /\ credsFile = MissingFile
    /\ ssoCache = None
    /\ pres = NoCall

\* callers
Procs == {1, 2}

\* the caller of the sequential specification
Sequential == {1}

\* no lookup made
NoLookup == [primary |-> Raise, secondary |-> Raise, ip |-> None, requests |-> <<>>]

\* a caller with no invocation under way
IdleProc ==
    [pc |-> "idle", cmd |-> "none", stack_name |-> None, project_filter |-> None,
     lookup |-> NoLookup,        \* cmd "ip": the responses and the result
     current_cidr |-> None,      \* update_ip_access: current_cidr
     u_stacks |-> <<>>,          \* update_ip_access: stacks
     sg_id |-> None,             \* update_ip_access: sg_id of the target stack
     up_returncode |-> -1,       \* update_ip_access: up_result.returncode (-1: not run)
     u_tool |-> [init |-> FALSE, up |-> FALSE],  \* the tool would init a new stack, run up
     ca_resolved |-> FALSE,      \* check_access: current_ip was resolved
     ca_cidr |-> None,           \* check_access: current_cidr
     ca_listed |-> <<>>,         \* check_access: what list_stacks() returned
     ca_stacks |-> <<>>,         \* check_access: stacks
     ca_idx |-> 0,               \* check_access: position of the loop in stacks
     access_status |-> <<>>,     \* check_access: access_status
     ca_rules |-> <<>>,          \* check_access: the sg_rules fetched for each entry
     ca_ran |-> <<>>,            \* the group read by the program each fetch ran
     ret_list |-> <<>>,          \* value returned by list_stacks
     l_env |-> NoListEnv,        \* cmd "list": the tool's answers to list_stacks
     l_calls |-> <<>>,           \* cmd "list": the calls of _get_stack_outputs made
     raised |-> None,            \* exception that ended the invocation (None: none)
     ret_ok |-> FALSE,           \* value returned by update_ip_access
     exit |-> -1,                \* exit status of the CLI (-1: none)
     trail |-> <<>>]             \* steps of the mutating part that were taken

\* the invocations: the library call get_local_public_ip() and the commands
\* of scripts/manage_access.py with their arguments
Invocation(cmd, stack_name, project_filter) ==
    [cmd |-> cmd, stack_name |-> stack_name, project_filter |-> project_filter]

Invocations ==
    {Invocation("ip", None, None)}
    \cup {Invocation("list", None, f) : f \in {None, "infrautilx"}}
    \cup {Invocation("check", None, f) : f \in {None, "infrautilx"}}
    \cup {Invocation("check", s, None) :
            s \in {"infrautilx-example/dev/test-stack", "dev/test-stack"}}
    \cup {Invocation("update", s, None) :
            s \in {"infrautilx-example/dev/test-stack", "another-project/dev/another-stack",
                   "infrautilx-bare/dev/bare", "dev/test-stack"}}

EntryPc(cmd) ==
    CASE cmd = "ip" -> "ip"
      [] cmd = "list" -> "list"
      [] cmd = "check" -> "ca_ip"
      [] cmd = "update" -> "u_start"

Init ==
    /\ pulumiInstalled \in BOOLEAN
    /\ rawStacks \in RawListings
    /\ sgIngress = InitialIngress
    /\ queryStack = NoQueryStack
    /\ updateStackExists = FALSE
    /\ stagedQuery = None
    /\ stagedUpdate = NoProgram
    /\ calls = 0
    /\ proc = [p \in Procs |-> IdleProc]
    /\ ProfilesAtRest
    /\ UtilsAtRest

\* ------------------------------------------------------------------------
\* scripts/manage_access.py main: dispatch and exit status
\* ------------------------------------------------------------------------
Invoke(p) ==
    /\ proc[p].pc \in {"idle", "done"}
    /\ calls < MaxCalls
    /\ \E inv \in Invocations :
          proc' = [proc EXCEPT ![p] =
                     [IdleProc EXCEPT !.pc = EntryPc(inv.cmd), !.cmd = inv.cmd,
                                      !.stack_name = inv.stack_name,
                                      !.project_filter = inv.project_filter]]
    /\ calls' = calls + 1
    /\ UNCHANGED <<pulumiInstalled, rawStacks, sgIngress, queryStack, updateStackExists,
                   stagedQuery, stagedUpdate>>
    /\ UNCHANGED <<profileVars, utilVars>>

\* main(): `update` exits 1 when update_ip_access returned False
UpdateExit(success) == IF success THEN 0 ELSE 1

\* update_ip_access returns success; main exits
UpdateReturns(rec, success) ==
    [rec EXCEPT !.pc = "done", !.ret_ok = success, !.exit = UpdateExit(success)]

\* check_access returns access_status: to main (`check` displays it and
\* falls off the end of main) or to update_ip_access
CheckReturns(rec) ==
    IF rec.cmd = "check" THEN [rec EXCEPT !.pc = "done", !.exit = 0]
    ELSE [rec EXCEPT !.pc = "u_stage"]

\* ------------------------------------------------------------------------
\* get_local_public_ip() called directly; `list`
\* ------------------------------------------------------------------------
GetIp(p) ==
    /\ proc[p].pc = "ip"
    /\ \E primary \in Responses, secondary \in Responses :
          LET r == get_local_public_ip(primary, secondary)
          IN  proc' = [proc EXCEPT ![p] =
                         [@ EXCEPT !.pc = "done",
                                   !.lookup = [primary |-> primary, secondary |-> secondary,
                                               ip |-> r.ip, requests |-> r.requests]]]
    /\ UNCHANGED <<pulumiInstalled, rawStacks, sgIngress, queryStack, updateStackExists,
                   stagedQuery, stagedUpdate, calls>>
    /\ UNCHANGED <<profileVars, utilVars>>

ListCmd(p) ==
    /\ proc[p].pc = "list"
    /\ \E env \in ListEnvs[rawStacks] :
          LET escapes == ListStacksEscapes(pulumiInstalled, env.ls)
          IN  proc' = [proc EXCEPT ![p] =
                     [@ EXCEPT !.pc = "done", !.l_env = env, !.raised = escapes,
                               !.exit = IF escapes = None THEN 0 ELSE 1,
                               !.l_calls = OutputCalls(pulumiInstalled, proc[p].project_filter,
                                                       env.ls, env.outEnv),
                               !.ret_list = list_stacks(pulumiInstalled, proc[p].project_filter,
                                                        env.ls, env.outEnv)]]
    /\ UNCHANGED <<pulumiInstalled, rawStacks, sgIngress, queryStack, updateStackExists,
                   stagedQuery, stagedUpdate, calls>>
    /\ UNCHANGED <<profileVars, utilVars>>

\* ------------------------------------------------------------------------
\* StackManager.check_access (stack_manager.py 237-288)
\* ------------------------------------------------------------------------
\* lines 247-253: resolve the current address
CheckIp(p) ==
    /\ proc[p].pc = "ca_ip"
    /\ \E primary \in Responses, secondary \in Responses :
          LET current_ip == get_local_public_ip(primary, secondary).ip
          IN  proc' = [proc EXCEPT ![p] =
                IF current_ip = None
                THEN CheckReturns([@ EXCEPT !.ca_resolved = FALSE, !.access_status = <<>>,
                                            !.ca_rules = <<>>])
                ELSE [@ EXCEPT !.pc = "ca_list", !.ca_resolved = TRUE,
                               !.ca_cidr = format_cidr_from_ip(current_ip, DefaultSuffix)]]
    /\ UNCHANGED <<pulumiInstalled, rawStacks, sgIngress, queryStack, updateStackExists,
                   stagedQuery, stagedUpdate, calls>>
    /\ UNCHANGED <<profileVars, utilVars>>

\* lines 255-260: the stacks to check
CheckList(p) ==
    /\ proc[p].pc = "ca_list"
    /\ \E env \in ListEnvs[rawStacks] :
          LET stacks == list_stacks(pulumiInstalled, proc[p].project_filter, env.ls, env.outEnv)
          IN  proc' = [proc EXCEPT ![p] =
                [@ EXCEPT !.pc = "ca_loop",
                          !.ca_listed = stacks,
                          !.ca_stacks = SelectStacks(stacks, proc[p].stack_name),
                          !.ca_idx = 1,
                          !.access_status = <<>>,
                          !.ca_rules = <<>>,
                          !.ca_ran = <<>>]]
    /\ UNCHANGED <<pulumiInstalled, rawStacks, sgIngress, queryStack, updateStackExists,
                   stagedQuery, stagedUpdate, calls>>
    /\ UNCHANGED <<profileVars, utilVars>>

\* lines 261-268 and 301-351: the head of one loop iteration, up to the
\* staging of the query program of _get_security_group_rules; line 288
CheckLoop(p) ==
    /\ proc[p].pc = "ca_loop"
    /\ LET rec == proc[p] IN
       IF rec.ca_idx > Len(rec.ca_stacks)
       THEN /\ proc' = [proc EXCEPT ![p] = CheckReturns(rec)]
            /\ UNCHANGED stagedQuery
       ELSE LET stack == rec.ca_stacks[rec.ca_idx]
                sg_id == stack.outputs.security_group_id
            IN  IF sg_id = None
                THEN /\ proc' = [proc EXCEPT ![p].ca_idx = @ + 1]
                     /\ UNCHANGED stagedQuery
                ELSE IF ~pulumiInstalled
                THEN /\ proc' = [proc EXCEPT ![p] =
                            [@ EXCEPT !.ca_idx = @ + 1,
                                      !.ca_rules = Append(@, <<>>),
                                      !.ca_ran = Append(@, None),
                                      !.access_status =
                                          Append(@, AccessEntry(stack, sg_id, <<>>, rec.ca_cidr))]]
                     /\ UNCHANGED stagedQuery
                ELSE /\ stagedQuery' = sg_id
                     /\ proc' = [proc EXCEPT ![p].pc = "ca_run"]
    /\ UNCHANGED <<pulumiInstalled, rawStacks, sgIngress, queryStack, updateStackExists,
                   stagedUpdate, calls>>
    /\ UNCHANGED <<profileVars, utilVars>>

\* a variant in which every caller runs the program it staged itself
ProgramOfCaller(staged, own) == own

\* `pulumi up --yes --cwd temp_dir` (line 358) runs the __main__.py found in
\* temp_sg_query, the one path all callers write to (lines 306-334)
ProgramRun(staged, own) == staged

\* lines 353-383 and 270-286: run the staged query program, read its
\* exports, append the AccessStatus of the stack
CheckRun(p) ==
    /\ proc[p].pc = "ca_run"
    /\ \E env \in QueryEnvs :
          LET rec == proc[p]
              stack == rec.ca_stacks[rec.ca_idx]
              sg_id == stack.outputs.security_group_id
              program_sg == ProgramRun(stagedQuery, sg_id)
              after == QueryBackendAfter(queryStack, program_sg, sgIngress, env)
              sg_rules == RulesFromOutput(QueryOutput(after, env))
          IN  /\ queryStack' = after
              /\ proc' = [proc EXCEPT ![p] =
                    [@ EXCEPT !.pc = "ca_loop",
                              !.ca_idx = @ + 1,
                              !.ca_rules = Append(@, sg_rules),
                              !.ca_ran = Append(@, program_sg),
                              !.access_status =
                                  Append(@, AccessEntry(stack, sg_id, sg_rules, rec.ca_cidr))]]
    /\ UNCHANGED <<pulumiInstalled, rawStacks, sgIngress, updateStackExists,
                   stagedQuery, stagedUpdate, calls>>
    /\ UNCHANGED <<profileVars, utilVars>>

\* ------------------------------------------------------------------------
\* StackManager.update_ip_access (stack_manager.py 385-514)
\* ------------------------------------------------------------------------
\* lines 395-409: the tool is installed, the current address resolves
UpdateStart(p) ==
    /\ proc[p].pc = "u_start"
    /\ \E primary \in Responses, secondary \in Responses :
          LET current_ip == get_local_public_ip(primary, secondary).ip
          IN  proc' = [proc EXCEPT ![p] =
                IF ~pulumiInstalled THEN UpdateReturns(@, FALSE)
                ELSE IF current_ip = None THEN UpdateReturns(@, FALSE)
                ELSE [@ EXCEPT !.pc = "u_list",
                               !.current_cidr = format_cidr_from_ip(current_ip, DefaultSuffix)]]
    /\ UNCHANGED <<pulumiInstalled, rawStacks, sgIngress, queryStack, updateStackExists,
                   stagedQuery, stagedUpdate, calls>>
    /\ UNCHANGED <<profileVars, utilVars>>

\* a variant that takes the first listed stack whatever its name
TargetStacksAny(stacks, stack_name) == stacks

\* the entries next() draws from: (s for s in stacks if s["name"] == stack_name);
\* target_stack is the first, or None when there is none
TargetStacks(stacks, stack_name) == SelectSeq(stacks, LAMBDA s : s.name = stack_name)

\* lines 411-430: the target stack and its security group; then line 433
\* calls check_access(stack_name)
UpdateList(p) ==
    /\ proc[p].pc = "u_list"
    /\ \E env \in ListEnvs[rawStacks] :
          LET stacks == list_stacks(pulumiInstalled, None, env.ls, env.outEnv)
              found == TargetStacks(stacks, proc[p].stack_name)
              rec == [proc[p] EXCEPT !.u_stacks = stacks]
          IN  proc' = [proc EXCEPT ![p] =
                IF stacks = <<>> THEN UpdateReturns(rec, FALSE)
                ELSE IF found = <<>> THEN UpdateReturns(rec, FALSE)
                ELSE IF Head(found).outputs.security_group_id = None
                     THEN UpdateReturns(rec, FALSE)
                ELSE [rec EXCEPT !.pc = "ca_ip",
                                 !.sg_id = Head(found).outputs.security_group_id]]
    /\ UNCHANGED <<pulumiInstalled, rawStacks, sgIngress, queryStack, updateStackExists,
                   stagedQuery, stagedUpdate, calls>>
    /\ UNCHANGED <<profileVars, utilVars>>

\* a variant that never short-circuits
NeverShortCircuits(access_info) == FALSE

\* lines 434-439: the access already granted short-circuits the update
ShortCircuits(access_info) ==
    /\ access_info # <<>>
    /\ access_info[1].has_access

\* lines 434-488: short-circuit, or stage the update program
UpdateStage(p) ==
    /\ proc[p].pc = "u_stage"
    /\ LET rec == proc[p] IN
       IF ShortCircuits(rec.access_status)
       THEN /\ proc' = [proc EXCEPT ![p] = UpdateReturns(rec, TRUE)]
            /\ UNCHANGED stagedUpdate
       ELSE /\ stagedUpdate' = UpdateProgram(rec.sg_id, rec.current_cidr)
            /\ proc' = [proc EXCEPT ![p] =
                  [@ EXCEPT !.pc = "u_run", !.trail = Append(@, "stage")]]
    /\ UNCHANGED <<pulumiInstalled, rawStacks, sgIngress, queryStack, updateStackExists,
                   stagedQuery, calls>>
    /\ UNCHANGED <<profileVars, utilVars>>

\* `pulumi stack init dev` in temp_sg_update: the stack must not exist yet
UpdateInit(exists, ok) == IF ~exists /\ ok THEN 0 ELSE 1

\* a variant that reports success without looking at the exit status of up
UpdateOutcomeIgnoringUp(exists, live, program, initOk, upOk) ==
    LET init_returncode == UpdateInit(exists, initOk)
        up_result == UpdateUp(live, program, upOk)
    IN  IF init_returncode # 0
        THEN [success |-> FALSE, ran |-> <<"init">>, up_returncode |-> -1,
              exists |-> exists, live |-> live]
        ELSE [success |-> TRUE, ran |-> <<"init", "up">>,
              up_returncode |-> up_result.returncode,
              exists |-> TRUE, live |-> up_result.live]

\* lines 490-510: init the throwaway stack and, unless that failed, run the
\* staged program; success is what update_ip_access returns
UpdateOutcome(exists, live, program, initOk, upOk) ==
    LET init_returncode == UpdateInit(exists, initOk)
        up_result == UpdateUp(live, program, upOk)
    IN  IF init_returncode # 0
        THEN [success |-> FALSE, ran |-> <<"init">>, up_returncode |-> -1,
              exists |-> exists, live |-> live]
        ELSE [success |-> up_result.returncode = 0, ran |-> <<"init", "up">>,
              up_returncode |-> up_result.returncode,
              exists |-> TRUE, live |-> up_result.live]

UpdateRun(p) ==
    /\ proc[p].pc = "u_run"
    /\ \E initOk \in BOOLEAN, upOk \in BOOLEAN :
          LET o == UpdateOutcome(updateStackExists, sgIngress, stagedUpdate, initOk, upOk)
          IN  /\ updateStackExists' = o.exists
              /\ sgIngress' = o.live
              /\ proc' = [proc EXCEPT ![p] =
                    UpdateReturns([@ EXCEPT !.trail = @ \o o.ran,
                                            !.u_tool = [init |-> initOk, up |-> upOk],
                                            !.up_returncode = o.up_returncode],
                                  o.success)]
    /\ UNCHANGED <<pulumiInstalled, rawStacks, queryStack, stagedQuery, stagedUpdate, calls>>
    /\ UNCHANGED <<profileVars, utilVars>>

\* ------------------------------------------------------------------------
\* Specification
\* ------------------------------------------------------------------------
Step(p) ==
    \/ Invoke(p)
    \/ GetIp(p)
    \/ ListCmd(p)
    \/ CheckIp(p)
    \/ CheckList(p)
    \/ CheckLoop(p)
    \/ CheckRun(p)
    \/ UpdateStart(p)
    \/ UpdateList(p)
    \/ UpdateStage(p)
    \/ UpdateRun(p)

Next == \E p \in Sequential : Step(p)

Spec == Init /\ [][Next]_vars

\* ------------------------------------------------------------------------
\* Two callers at once: `check` and `update` run by two processes on one
\* machine, with the tool installed, the network up and the tool's commands
\* succeeding wherever the state of the backend lets them
\* ------------------------------------------------------------------------
ConcurrentInvocations ==
    {Invocation("check", None, None)}
    \cup {Invocation(c, s, None) :
            c \in {"check", "update"},
            s \in {"infrautilx-example/dev/test-stack", "another-project/dev/another-stack"}}

\* the invocation caller p has under way is one of ConcurrentInvocations
InvokedConcurrently(p) ==
    Invocation(proc[p].cmd, proc[p].stack_name, proc[p].project_filter)
        \in ConcurrentInvocations

\* both deployed stacks were listed with their outputs
ListedAll(stacks) == Len(stacks) = 2

\* the query caller p just ran exported the rules of the group its program
\* reads, and p read them
QueryRan(p) ==
    /\ queryStack.has
    /\ queryStack.of = proc[p].ca_ran[Len(proc[p].ca_ran)]
    /\ queryStack.ingress_rules = sgIngress[queryStack.of]
    /\ proc[p].ca_rules[Len(proc[p].ca_rules)] =
          [i \in 1..Len(queryStack.ingress_rules) |-> ToRule(queryStack.ingress_rules[i])]

ConcurrentStep(p) ==
    \/ Invoke(p) /\ InvokedConcurrently(p)'
    \/ CheckIp(p) /\ proc'[p].ca_resolved
    \/ CheckList(p) /\ ListedAll(proc'[p].ca_listed)
    \/ CheckLoop(p)
    \/ CheckRun(p) /\ QueryRan(p)'
    \/ UpdateStart(p) /\ proc'[p].current_cidr # None
    \/ UpdateList(p) /\ ListedAll(proc'[p].u_stacks)
    \/ UpdateStage(p)
    \/ UpdateRun(p) /\ proc'[p].u_tool = [init |-> TRUE, up |-> TRUE]

ConcurrentInit ==
    /\ Init
    /\ pulumiInstalled
    /\ rawStacks = <<RawTest, RawAnother>>

ConcurrentNext == \E p \in Procs : ConcurrentStep(p)

ConcurrentSpec == ConcurrentInit /\ [][ConcurrentNext]_vars

\* ------------------------------------------------------------------------
\* The calls of the profile manager
\* ------------------------------------------------------------------------
\* the names the calls are made with
ProfileArgs == {"dev", "stage", "prod", "ci", "ghost"}

\* the call made, with the current profile and AWS_PROFILE before it
Call(op, name, fetch_all) ==
    [NoCall EXCEPT !.op = op, !.name = name, !.fetch_all = fetch_all,
                   !.before = get_current_profile(awsProfile, awsDefaultProfile),
                   !.before_env = awsProfile]

\* a variant of the handlers that always falls off the end of main
HandleExitZero(success, raised) == 0

\* scripts/manage_profiles.py handle_switch, handle_validate and
\* handle_refresh_sso: sys.exit(1) when the operation reported no success,
\* status 0 when the handler returns; the interpreter exits 1 on an
\* exception nothing caught
HandleExit(success, raised) ==
    IF raised # None THEN 1
    ELSE IF success THEN 0 ELSE 1

\* the exit status of the command of manage_profiles.py that makes the call
\* op; `list` has no failure branch of its own
CommandExit(op, ret, raised) ==
    IF op = "list" THEN HandleExit(TRUE, raised) ELSE HandleExit(ret, raised)

\* the state after a call that returned r and left AWS_PROFILE at aws_profile
Returned(call, aws_profile, r) ==
    /\ awsProfile' = aws_profile
    /\ pres' = [call EXCEPT !.ret = r.ret, !.profiles = r.profiles,
                            !.processes = r.processes, !.raised = r.raised,
                            !.logins = r.logins, !.login = r.login,
                            !.exit = CommandExit(call.op, r.ret, r.raised)]
    /\ UNCHANGED <<awsDefaultProfile, configFile, credsFile, ssoCache>>
    /\ UNCHANGED <<stackVars, utilVars>>

\* the fields of a result, with those the operation does not have
Result(ret, r, logins, login) ==
    [ret |-> ret, profiles |-> r.profiles, processes |-> r.processes, raised |-> r.raised,
     logins |-> logins, login |-> login]

ListProfilesGiven(call, r) == Returned(call, awsProfile, Result(FALSE, r, <<>>, NoLogin))

ListProfiles ==
    \E fetch_all_account_ids \in BOOLEAN, sts \in StsAnswers :
        ListProfilesGiven(Call("list", None, fetch_all_account_ids),
                          list_profiles(configFile, credsFile,
                                        get_current_profile(awsProfile, awsDefaultProfile),
                                        fetch_all_account_ids, sts, ssoCache))

SwitchProfileGiven(call, r) == Returned(call, r.AWS_PROFILE, Result(r.ret, r, <<>>, NoLogin))

SwitchProfile ==
    \E profile_name \in ProfileArgs, sts \in StsAnswers :
        SwitchProfileGiven(Call("switch", profile_name, TRUE),
                           switch_profile(profile_name, awsProfile, awsDefaultProfile,
                                          configFile, credsFile, sts, ssoCache))

ValidateProfile ==
    \E profile_name \in ProfileArgs \cup {None}, sts \in StsAnswers, provider_ok \in BOOLEAN :
        SwitchProfileGiven(Call("validate", profile_name, TRUE),
                           validate_profile(profile_name, awsProfile, awsDefaultProfile,
                                            configFile, credsFile, sts, ssoCache, provider_ok))

RefreshSsoGiven(call, login, r) ==
    Returned(call, awsProfile,
             Result(r.ret, r, r.logins, IF r.logins = <<>> THEN NoLogin ELSE login))

RefreshSso ==
    \E profile_name \in ProfileArgs, sts \in StsAnswers, login \in LoginResults :
        RefreshSsoGiven(Call("refresh", profile_name, TRUE), login,
                        refresh_sso_credentials(profile_name,
                            get_current_profile(awsProfile, awsDefaultProfile),
                            configFile, credsFile, sts, ssoCache, login))

\* the environment the process starts in and the files it finds; the stack
\* manager is at rest
ProfileInit ==
    /\ awsProfile \in {None, "", "dev"}
    /\ awsDefaultProfile \in {None, "default"}
    /\ configFile \in ConfigFiles
    /\ credsFile \in CredentialsFiles
    /\ ssoCache \in SsoCaches
    /\ pres = NoCall
    /\ pulumiInstalled = TRUE
    /\ rawStacks = <<>>
    /\ sgIngress = InitialIngress
    /\ queryStack = NoQueryStack
    /\ updateStackExists = FALSE
    /\ stagedQuery = None
    /\ stagedUpdate = NoProgram
    /\ calls = 0
    /\ proc = [p \in Procs |-> IdleProc]
    /\ UtilsAtRest

ProfileNext ==
    \/ ListProfiles
    \/ SwitchProfile
    \/ ValidateProfile
    \/ RefreshSso

ProfileSpec == ProfileInit /\ [][ProfileNext]_vars

\* ------------------------------------------------------------------------
\* The callers of the utility functions
\* ------------------------------------------------------------------------
\* the stack manager before any invocation
StacksAtRest ==
    /\ pulumiInstalled = TRUE
    /\ rawStacks = <<>>
    /\ sgIngress = InitialIngress
    /\ queryStack = NoQueryStack
    /\ updateStackExists = FALSE
    /\ stagedQuery = None
    /\ stagedUpdate = NoProgram
    /\ calls = 0
    /\ proc = [p \in Procs |-> IdleProc]

\* merge_tags(defaultTags, customTags)
MergeTags ==
    /\ LET r == merge_tags(defaultTags, customTags)
       IN  /\ util' = [NoUtilCall EXCEPT !.op = "merge_tags",
                                         !.default_before = defaultTags,
                                         !.custom_before = customTags,
                                         !.result = r.result]
           /\ defaultTags' = r.default_tags
           /\ customTags' = r.custom_tags
    /\ UNCHANGED <<stackVars, profileVars>>

\* format_cidr_from_ip(ip) and format_cidr_from_ip(ip, suffix)
FormatCidr ==
    /\ \E ip \in CidrIps, suffix \in CidrSuffixes \cup {None} :
          util' = [NoUtilCall EXCEPT
                     !.op = "format_cidr_from_ip", !.ip = ip, !.suffix = suffix,
                     !.cidr = format_cidr_from_ip(ip, IF suffix = None THEN DefaultSuffix
                                                      ELSE suffix)]
    /\ UNCHANGED <<defaultTags, customTags>>
    /\ UNCHANGED <<stackVars, profileVars>>

\* the two dicts the caller holds
UtilInit ==
    /\ defaultTags \in TagArgs
    /\ customTags \in TagArgs
    /\ util = NoUtilCall
    /\ StacksAtRest
    /\ ProfilesAtRest

UtilNext ==
    \/ MergeTags
    \/ FormatCidr

UtilSpec == UtilInit /\ [][UtilNext]_vars

\* ------------------------------------------------------------------------
\* The two command-line tools: a session runs scripts/manage_access.py
\* (it starts as Init says) or scripts/manage_profiles.py (it starts as
\* ProfileInit says)
\* ------------------------------------------------------------------------
CliInit == Init \/ ProfileInit

CliNext ==
    \/ rawStacks \in RawListings /\ Next
    \/ rawStacks = <<>> /\ ProfileNext

CliSpec == CliInit /\ [][CliNext]_vars

\* ------------------------------------------------------------------------
\* Properties
\* ------------------------------------------------------------------------
\* check_access has returned to its caller in the invocation rec
CheckReturned(rec) ==
    \/ rec.cmd = "check" /\ rec.pc = "done"
    \/ rec.cmd = "update" /\ rec.pc \in {"u_stage", "u_run"}
    \/ rec.cmd = "update" /\ rec.pc = "done" /\ rec.sg_id # None

\* C1: in every AccessStatus, has_access is true iff some fetched rule with
\* port 22 lists the current CIDR, and iff the current CIDR is a member of
\* authorized_ips.
C1_HasAccessIffListed ==
    \A p \in Procs :
        \A i \in 1..Len(proc[p].access_status) :
            LET e == proc[p].access_status[i]
                rules == proc[p].ca_rules[i]
            IN  /\ e.has_access =
                      (\E j \in 1..Len(rules) :
                          rules[j].port = 22 /\ e.current_ip \in Range(rules[j].cidr_blocks))
                /\ e.has_access = (e.current_ip \in Range(e.authorized_ips))

\* a `check` returned an allowed and a denied stack, the denied one with
\* authorized addresses of its own
C1_Witness ==
    \E p \in Procs :
        /\ proc[p].cmd = "check" /\ proc[p].pc = "done"
        /\ \E i, j \in 1..Len(proc[p].access_status) :
              /\ proc[p].access_status[i].has_access
              /\ ~proc[p].access_status[j].has_access
              /\ proc[p].access_status[j].authorized_ips # <<>>

\* C2: only rules for tcp port 22 count: every authorized address of an
\* AccessStatus comes from a fetched tcp/22 rule, and has_access is true
\* only if a fetched tcp/22 rule lists the current CIDR.
C2_OnlyTcp22Counts ==
    \A p \in Procs :
        \A i \in 1..Len(proc[p].access_status) :
            LET e == proc[p].access_status[i]
                rules == proc[p].ca_rules[i]
                Tcp22(r) == r.port = 22 /\ r.protocol = "tcp"
            IN  /\ \A c \in Range(e.authorized_ips) :
                      \E j \in 1..Len(rules) : Tcp22(rules[j]) /\ c \in Range(rules[j].cidr_blocks)
                /\ e.has_access =>
                      \E j \in 1..Len(rules) :
                          Tcp22(rules[j]) /\ e.current_ip \in Range(rules[j].cidr_blocks)

\* the firewall grants tcp/22 to cidr on group sg
GrantsSsh(sg, cidr) ==
    \E i \in 1..Len(sgIngress[sg]) :
        /\ sgIngress[sg][i].protocol = "tcp"
        /\ sgIngress[sg][i].from_port = 22
        /\ cidr \in Range(sgIngress[sg][i].cidr_blocks)

\* C3 as stated: while the port-22 rules of the target stack list the
\* current CIDR, update_ip_access does not get past the short-circuit: it
\* never stages the mutating program.  (Stated for the calls whose access
\* check resolved the same address as the call itself.)
C3_NoMutationWhenListed ==
    \A p \in Procs :
        ( /\ proc[p].cmd = "update" /\ proc[p].pc = "u_run"
          /\ proc[p].ca_resolved /\ proc[p].ca_cidr = proc[p].current_cidr )
            => ~GrantsSsh(proc[p].sg_id, proc[p].current_cidr)

\* C3 amended: an update_ip_access that found its group short-circuits
\* exactly when the access check it made returned a first entry with
\* has_access true: then it returns True (exit 0) having taken no step of
\* the mutating part (nothing staged, no init, no up); when that check
\* returned nothing or a first entry without access, the mutating part is
\* staged, whatever the firewall holds.
C3_ShortCircuitOnObservedAccess ==
    \A p \in Procs :
        LET rec == proc[p] IN
        (rec.cmd = "update" /\ rec.pc \in {"u_run", "done"} /\ rec.sg_id # None)
            => IF rec.access_status # <<>> /\ rec.access_status[1].has_access
               THEN rec.pc = "done" /\ rec.ret_ok /\ rec.exit = 0 /\ rec.trail = <<>>
               ELSE rec.trail # <<>>

\* a second update from the same address, after a first one added the
\* rule, returned True without a step of the mutating part
C3_Witness ==
    \E p \in Procs :
        /\ proc[p].cmd = "update" /\ proc[p].pc = "done"
        /\ proc[p].ret_ok /\ proc[p].trail = <<>>
        /\ sgIngress # InitialIngress
        /\ proc[p].access_status # <<>>
        /\ proc[p].access_status[1].current_ip = proc[p].current_cidr

\* the cases of C4, read off what the invocation saw
C4_FailureCase(rec) ==
    \/ ~pulumiInstalled
    \/ rec.current_cidr = None
    \/ \A i \in 1..Len(rec.u_stacks) : rec.u_stacks[i].name # rec.stack_name
    \/ \E i \in 1..Len(rec.u_stacks) :
          /\ rec.u_stacks[i].name = rec.stack_name
          /\ \A j \in 1..(i - 1) : rec.u_stacks[j].name # rec.stack_name
          /\ rec.u_stacks[i].outputs.security_group_id = None

\* C4: with the tool missing, the address unresolved, the stack not listed
\* or no security_group_id published, update_ip_access returns False (exit
\* 1) and took no step of the mutating part.
C4_FailsWithoutMutation ==
    \A p \in Procs :
        (proc[p].cmd = "update" /\ proc[p].pc = "done" /\ C4_FailureCase(proc[p]))
            => (~proc[p].ret_ok /\ proc[p].exit = 1 /\ proc[p].trail = <<>>
                /\ proc[p].access_status = <<>>)

\* an update named a stack that a non-empty listing does not hold
C4_Witness ==
    \E p \in Procs :
        /\ proc[p].cmd = "update" /\ proc[p].pc = "done"
        /\ pulumiInstalled /\ proc[p].current_cidr # None
        /\ proc[p].u_stacks # <<>>
        /\ \A i \in 1..Len(proc[p].u_stacks) : proc[p].u_stacks[i].name # proc[p].stack_name
        /\ ~proc[p].ret_ok

\* C5: a call that got past the short-circuit returns True iff the run of
\* the staged program exited zero (and then the rule is in the firewall).
C5_SuccessIffUpExitsZero ==
    \A p \in Procs :
        LET rec == proc[p] IN
        (rec.cmd = "update" /\ rec.pc = "done" /\ rec.trail # <<>>)
            => /\ rec.ret_ok = (rec.up_returncode = 0)
               /\ rec.ret_ok => GrantsSsh(rec.sg_id, rec.current_cidr)
               /\ rec.exit = (IF rec.up_returncode = 0 THEN 0 ELSE 1)

\* an update staged, initialised and ran its program, and returned True
C5_Witness ==
    \E p \in Procs :
        /\ proc[p].cmd = "update" /\ proc[p].pc = "done"
        /\ proc[p].trail = <<"stage", "init", "up">>
        /\ proc[p].ret_ok

\* the endpoint's answer is a failure: an error raised or a status other than 200
EndpointFails(response) == response.raises \/ response.status_code # 200

\* C6: the secondary endpoint is queried iff the primary query failed
\* (raised or non-success status); a successful primary means one request.
C6_SecondaryIffPrimaryFails ==
    \A p \in Procs :
        LET rec == proc[p] IN
        (rec.cmd = "ip" /\ rec.pc = "done")
            => /\ (SecondaryUrl \in Range(rec.lookup.requests)) = EndpointFails(rec.lookup.primary)
               /\ ~EndpointFails(rec.lookup.primary) => Len(rec.lookup.requests) = 1

\* C7: at most two requests per call; when both endpoints fail the result
\* is None after exactly two requests.
C7_BothFailNoneAfterTwo ==
    \A p \in Procs :
        LET rec == proc[p] IN
        (rec.cmd = "ip" /\ rec.pc = "done")
            => /\ Len(rec.lookup.requests) <= 2
               /\ (EndpointFails(rec.lookup.primary) /\ EndpointFails(rec.lookup.secondary))
                     => (rec.lookup.ip = None /\ Len(rec.lookup.requests) = 2)

\* C8: a `check` or `update` whose current address could not be resolved
\* ends with a non-zero exit status.
C8_UnresolvedAddressExitsNonZero ==
    \A p \in Procs :
        LET rec == proc[p] IN
        /\ (rec.cmd = "check" /\ rec.pc = "done" /\ ~rec.ca_resolved) => rec.exit # 0
        /\ (rec.cmd = "update" /\ rec.pc = "done" /\ rec.current_cidr = None) => rec.exit # 0

\* C9: once the address is resolved, check_access returns one AccessStatus
\* per listed stack that publishes a security_group_id (and bears the
\* requested name, when one is given), in listing order, and no other.
C9_OneStatusPerStackWithGroup ==
    \A p \in Procs :
        LET rec == proc[p]
            expected == SelectSeq(rec.ca_listed,
                           LAMBDA s : /\ s.outputs.security_group_id # None
                                      /\ (rec.stack_name = None \/ s.name = rec.stack_name))
        IN  (CheckReturned(rec) /\ rec.ca_resolved)
                => /\ Len(rec.access_status) = Len(expected)
                   /\ \A i \in 1..Len(expected) :
                         /\ rec.access_status[i].stack_name = expected[i].name
                         /\ rec.access_status[i].security_group_id
                                = expected[i].outputs.security_group_id

\* a `check` of all stacks skipped a listed stack without a group that
\* comes before one with a group
C9_Witness ==
    \E p \in Procs :
        /\ proc[p].cmd = "check" /\ proc[p].pc = "done" /\ proc[p].ca_resolved
        /\ Len(proc[p].ca_listed) = 2
        /\ proc[p].ca_listed[1].outputs.security_group_id = None
        /\ Len(proc[p].access_status) = 1

\* C10: without a filter list_stacks returns one entry per raw stack, in
\* order, named as the raw stack and with its projectName as project.
C10_ListedUnderRawName ==
    \A p \in Procs :
        LET rec == proc[p] IN
        ( /\ rec.cmd = "list" /\ rec.pc = "done" /\ rec.project_filter = None
          /\ Len(rec.ret_list) = Len(rawStacks) )
            => \A i \in 1..Len(rawStacks) :
                  /\ rec.ret_list[i].name = rawStacks[i].name
                  /\ rec.ret_list[i].project = rawStacks[i].projectName

\* prefix is an initial segment of s
IsPrefixOf(prefix, s) == \E k \in 0..Len(s) : SubSeq(s, 1, k) = prefix

\* a `list` invocation whose list command gave a parseable listing
ListedFromRaw(rec) ==
    /\ rec.cmd = "list" /\ rec.pc = "done" /\ pulumiInstalled
    /\ ~Raises(rec.l_env.ls)
    /\ rec.l_env.ls.returncode = 0 /\ rec.l_env.ls.stdout.json

\* the raw entries that bear a name and a project
Named(raw) == { i \in 1..Len(raw) : raw[i].name # None /\ raw[i].projectName # None }

\* the name list_stacks gives raw entry i
FullName(raw, i) == raw[i].projectName \o "/" \o raw[i].name

\* the tool gave outputs for raw entry i in the run of rec
OutputsRetrieved(rec, raw, i) ==
    _get_stack_outputs(TRUE, FullName(raw, i), rec.l_env.outEnv[FullName(raw, i)]).outputs
        # NoOutputs

\* C11: with a project filter a raw entry (whose outputs were retrieved) is
\* listed iff its project name starts with the filter, and every listed
\* entry's project starts with it; without a filter every such entry is
\* listed.
C11_FilterIsPrefixMatch ==
    \A p \in Procs :
        LET rec == proc[p]
            f == rec.project_filter
            listed == { rec.ret_list[j].name : j \in 1..Len(rec.ret_list) }
        IN  ListedFromRaw(rec) =>
              /\ \A i \in Named(rawStacks) :
                    OutputsRetrieved(rec, rawStacks, i) =>
                       ( (FullName(rawStacks, i) \in listed)
                           <=> (f = None \/ IsPrefixOf(f, rawStacks[i].projectName)) )
              /\ \A j \in 1..Len(rec.ret_list) :
                    f # None => IsPrefixOf(f, rec.ret_list[j].project)

\* a filtered listing kept a project that the filter is a proper prefix of
\* and dropped a stack of another project whose outputs were at hand
C11_Witness ==
    \E p \in Procs :
        /\ ListedFromRaw(proc[p]) /\ proc[p].project_filter = "infrautilx"
        /\ \E j \in 1..Len(proc[p].ret_list) : proc[p].ret_list[j].project = "infrautilx-example"
        /\ \E i \in Named(rawStacks) :
              /\ rawStacks[i].projectName = "another-project"
              /\ OutputsRetrieved(proc[p], rawStacks, i)
              /\ \A j \in 1..Len(proc[p].ret_list) :
                    proc[p].ret_list[j].name # FullName(rawStacks, i)

\* C12: list_stacks lets no exception through, and a missing executable, a
\* list command that cannot be run or exits non-zero, or output that does
\* not parse each give the empty listing.
C12_ListStacksNeverRaises ==
    \A p \in Procs :
        LET rec == proc[p]
            ls == rec.l_env.ls
        IN  (rec.cmd = "list" /\ rec.pc = "done")
              => /\ rec.raised = None
                 /\ ( \/ ~pulumiInstalled
                      \/ Raises(ls)
                      \/ (~Raises(ls) /\ (ls.returncode # 0 \/ ~ls.stdout.json)) )
                       => rec.ret_list = <<>>

\* a `list` whose list command could not be run returned the empty listing
C12_Witness ==
    \E p \in Procs :
        /\ proc[p].cmd = "list" /\ proc[p].pc = "done" /\ pulumiInstalled
        /\ Raises(proc[p].l_env.ls)
        /\ proc[p].ret_list = <<>>

\* C13: every retained raw entry that has a name and a project yields
\* exactly one listing entry, also when its outputs are empty.
C13_EmptyOutputsStillListed ==
    \A p \in Procs :
        LET rec == proc[p]
            f == rec.project_filter
            retained == { i \in Named(rawStacks) :
                            f = None \/ IsPrefixOf(f, rawStacks[i].projectName) }
        IN  ListedFromRaw(rec) =>
              /\ Len(rec.ret_list) = Cardinality(retained)
              /\ \A i \in retained :
                    \E j \in 1..Len(rec.ret_list) : rec.ret_list[j].name = FullName(rawStacks, i)

\* the entries of a listing that bear name
EntriesNamed(profiles, name) == { i \in 1..Len(profiles) : profiles[i].name = name }

\* C14: switch_profile(name) returns True iff name is in the listing it
\* took; on True AWS_PROFILE is name afterwards, on False (and when the
\* listing raised) AWS_PROFILE is what it was.
C14_SwitchIffListed ==
    pres.op = "switch" =>
        /\ pres.raised = None => pres.ret = (EntriesNamed(pres.profiles, pres.name) # {})
        /\ pres.ret => awsProfile = pres.name
        /\ ~pres.ret => awsProfile = pres.before_env

\* a switch to a listed profile other than the one in force returned True
C14_Witness ==
    /\ pres.op = "switch" /\ pres.ret
    /\ pres.before # pres.name
    /\ awsProfile = pres.name

\* C15: after validate_profile returns, get_current_profile() gives what
\* it gave before the call.
C15_ValidateRestoresProfile ==
    (pres.op = "validate" /\ pres.raised = None)
        => get_current_profile(awsProfile, awsDefaultProfile) = pres.before

\* C16: refresh_sso_credentials(name) returns False without running the
\* login command when name is not listed or its entry is not an SSO
\* profile; otherwise it runs the login command once and returns True iff
\* that command exits zero.
C16_RefreshFailsFastOrLogsIn ==
    (pres.op = "refresh" /\ pres.raised = None) =>
        LET found == SelectSeq(pres.profiles, LAMBDA q : q.name = pres.name)
        IN  IF found = <<>> \/ ~found[1].is_sso
            THEN ~pres.ret /\ pres.logins = <<>>
            ELSE /\ pres.logins = <<pres.name>>
                 /\ pres.ret = (~Raises(pres.login) /\ pres.login.returncode = 0)

\* a refresh of an SSO profile ran the login command and returned True
C16_Witness ==
    /\ pres.op = "refresh" /\ pres.ret
    /\ pres.logins = <<pres.name>>
    /\ \E i \in EntriesNamed(pres.profiles, pres.name) : pres.profiles[i].is_sso

\* C17: list_profiles raises nothing, whatever the two files hold.
C17_ListProfilesNeverRaises ==
    pres.op = "list" => pres.raised = None

\* C18: no two entries of one listing share a name.
C18_NamesUnique ==
    (pres.op = "list" /\ pres.raised = None) =>
        \A i, j \in 1..Len(pres.profiles) :
            pres.profiles[i].name = pres.profiles[j].name => i = j

\* C19: at most one entry of a listing is active, and an active entry bears
\* the name of the environment-resolved current profile.
C19_AtMostOneActive ==
    (pres.op = "list" /\ pres.raised = None) =>
        /\ Cardinality({ i \in 1..Len(pres.profiles) : pres.profiles[i].is_active }) <= 1
        /\ \A i \in 1..Len(pres.profiles) :
              pres.profiles[i].is_active => pres.profiles[i].name = pres.before

\* C20: one list_profiles call runs at most one external process per
\* profile, and runs one for a profile only if fetch_all_account_ids is
\* true or the profile is the active one.
C20_OneProcessPerProfile ==
    pres.op = "list" =>
        \A k \in 1..Len(pres.processes) :
            /\ \A m \in 1..Len(pres.processes) :
                  pres.processes[m].profile = pres.processes[k].profile => m = k
            /\ pres.fetch_all \/ pres.processes[k].profile = pres.before

\* ------------------------------------------------------------------------
\* C21: `update <stack>` of manage_access.py exits 1 if and only if
\* update_ip_access returned False and 0 otherwise; `validate` and
\* `refresh-sso` of manage_profiles.py exit 1 exactly when the operation
\* did not report success and 0 when it did.
C21_ExitStatusFollowsResult ==
    /\ \A p \in Procs :
          proc[p].pc = "done" /\ proc[p].cmd = "update"
          => proc[p].exit = IF proc[p].ret_ok THEN 0 ELSE 1
    /\ pres.op \in {"validate", "refresh"}
       => pres.exit = IF pres.raised = None /\ pres.ret THEN 0 ELSE 1

\* `validate` of a listed profile whose credentials the provider rejects
C21_Witness ==
    /\ pres.op = "validate"
    /\ pres.raised = None
    /\ ProfileListed(pres.profiles, pres.name)
    /\ ~pres.ret
    /\ pres.exit = 1

\* ------------------------------------------------------------------------
\* the items of an argument of merge_tags (None has none)
ItemsOf(tags) == IF tags.none THEN <<>> ELSE tags.items

\* C22: the key set of merge_tags(default, custom) is the union of the two
\* key sets; a key of custom carries custom's value and any other key
\* default's; with custom = None the result equals default; neither
\* argument is modified.
C22_MergeTagsCustomWins ==
    util.op = "merge_tags"
    => LET d == ItemsOf(util.default_before)
           c == ItemsOf(util.custom_before)
       IN  /\ DOMAIN util.result = DOMAIN d \cup DOMAIN c
           /\ \A k \in DOMAIN c : util.result[k] = c[k]
           /\ \A k \in DOMAIN d \ DOMAIN c : util.result[k] = d[k]
           /\ util.custom_before.none => util.result = d
           /\ defaultTags = util.default_before
           /\ customTags = util.custom_before

\* a merge in which the two arguments disagree on a shared key and each
\* has a key of its own
C22_Witness ==
    /\ util.op = "merge_tags"
    /\ ~util.default_before.none /\ ~util.custom_before.none
    /\ \E k \in DOMAIN util.default_before.items \cap DOMAIN util.custom_before.items :
          /\ util.default_before.items[k] # util.custom_before.items[k]
          /\ util.result[k] = util.custom_before.items[k]
    /\ DOMAIN util.default_before.items \ DOMAIN util.custom_before.items # {}
    /\ DOMAIN util.custom_before.items \ DOMAIN util.default_before.items # {}

\* ------------------------------------------------------------------------
\* C23: format_cidr_from_ip(ip, s) is ip followed by s, s being "/32" when
\* omitted; it returns a string for every input.
C23_CidrIsIpThenSuffix ==
    util.op = "format_cidr_from_ip"
    => LET s == IF util.suffix = None THEN "/32" ELSE util.suffix
       IN  /\ Len(util.cidr) = Len(util.ip) + Len(s)
           /\ SubSeq(util.cidr, 1, Len(util.ip)) = util.ip
           /\ SubSeq(util.cidr, Len(util.ip) + 1, Len(util.cidr)) = s

\* an address formatted with a suffix other than the default
C23_Witness ==
    /\ util.op = "format_cidr_from_ip"
    /\ util.ip = "203.0.113.42"
    /\ util.suffix = "/24"
    /\ util.cidr = "203.0.113.42/24"

CurrentRules(sg) == [i \in 1..Len(sgIngress[sg]) |-> ToRule(sgIngress[sg][i])]

\* the firewall has not changed since the invocation rec fetched its rules
FetchedUnderThisFirewall(rec) ==
    \/ rec.pc \in {"ca_loop", "ca_run", "u_stage", "u_run"}
    \/ rec.pc = "done" /\ rec.cmd = "check"

\* C25: _get_security_group_rules(stack, sgId) returns the rules of sgId as
\* they are at the moment of the call (one entry per rule, in order, port
\* the rule's from_port, protocol and cidr_blocks kept), or the empty list;
\* never the rules an earlier call exported for another group.
C25_RulesAreCurrentOrEmpty ==
    \A p \in Procs :
        FetchedUnderThisFirewall(proc[p])
        => \A i \in 1..Len(proc[p].ca_rules) :
              \/ proc[p].ca_rules[i] = <<>>
              \/ proc[p].ca_rules[i] = CurrentRules(proc[p].access_status[i].security_group_id)

\* ------------------------------------------------------------------------
\* C26: every disposable staging (the temporary program directory and the
\* throwaway project/stack on the backend) is torn down before the
\* operation that made it returns, on every exit path.
C26_StagingTornDown ==
    \A p \in Procs :
        proc[p].pc = "done" /\ proc[p].cmd \in {"check", "update"}
        => /\ stagedQuery = None
           /\ ~queryStack.exists
           /\ stagedUpdate = NoProgram
           /\ ~updateStackExists

\* ------------------------------------------------------------------------
\* the mutating run of the invocation rec would exit zero: the tool is able
\* to create a stack and to run the program, and the rule is not there yet
\* (a failed run leaves the firewall as it found it)
WouldExitZero(rec) ==
    /\ rec.u_tool.init
    /\ rec.u_tool.up
    /\ ~rec.ret_ok => ~Duplicate(sgIngress, UpdateProgram(rec.sg_id, rec.current_cidr))

\* C29: the outcome of update_ip_access does not depend on earlier
\* invocations: a call that got past the short-circuit reaches the mutating
\* run and returns True whenever that run would exit zero, whatever earlier
\* calls left in the staging directory or on the backend.
C29_UpdateIndependentOfEarlierCalls ==
    \A p \in Procs :
        ( /\ proc[p].cmd = "update" /\ proc[p].pc = "done"
          /\ "stage" \in Range(proc[p].trail)
          /\ WouldExitZero(proc[p]) )
            => "up" \in Range(proc[p].trail) /\ proc[p].ret_ok

\* ------------------------------------------------------------------------
\* C30: within one update_ip_access call the CIDR checked for the
\* short-circuit is the CIDR the mutating program adds (or success is
\* reported for): once the access check has returned, it was made for the
\* address the call itself resolved.
C30_CheckedCidrIsAddedCidr ==
    \A p \in Procs :
        (proc[p].cmd = "update" /\ CheckReturned(proc[p]))
            => proc[p].ca_resolved /\ proc[p].ca_cidr = proc[p].current_cidr

\* ------------------------------------------------------------------------
\* C27: concurrent rule queries share one staging directory without
\* locking: the program a caller runs is the one staged last by any caller
\* (last writer wins) and the caller reports the rules of the group that
\* program reads as those of its own group.
C27_RunsLastStagedProgram ==
    [][\A p \in Procs :
          (proc[p].pc = "ca_run" /\ proc'[p].pc = "ca_loop")
          => LET i == Len(proc'[p].ca_rules)
             IN  /\ proc'[p].ca_ran[i] = stagedQuery
                 /\ proc'[p].ca_rules[i] = CurrentRules(stagedQuery)]_vars

\* a caller reported, for its own group, the rules of the group the other
\* caller had staged a query for
C27_Witness ==
    \E p \in Procs :
        \E i \in 1..Len(proc[p].ca_rules) :
            LET own == proc[p].access_status[i].security_group_id
                other == proc[p].ca_ran[i]
            IN  /\ other # own
                /\ \E q \in Procs \ {p} :
                      /\ proc[q].pc \in {"ca_run", "ca_loop"}
                      /\ proc[q].ca_stacks[proc[q].ca_idx - (IF proc[q].pc = "ca_loop" THEN 1 ELSE 0)]
                            .outputs.security_group_id = other
                /\ sgIngress = InitialIngress
                /\ proc[p].ca_rules[i] = CurrentRules(other)
                /\ proc[p].ca_rules[i] # CurrentRules(own)

\* ------------------------------------------------------------------------
\* C28: the short-circuit of update_ip_access is a read-then-act that is
\* not atomic: two interleaved calls for the same stack and the same CIDR,
\* not yet authorised, both observe 'no access' and both issue the mutating
\* add command.
C28_BothIssueMutatingCommand ==
    \A p, q \in Procs :
        ( /\ p # q
          /\ proc[p].cmd = "update" /\ proc[p].pc = "done"
          /\ proc[q].cmd = "update" /\ proc[q].pc = "done"
          /\ proc[p].sg_id # None /\ proc[p].sg_id = proc[q].sg_id
          /\ proc[p].current_cidr = proc[q].current_cidr
          /\ "stage" \in Range(proc[p].trail)
          /\ "stage" \in Range(proc[q].trail) )
            => /\ "up" \in Range(proc[p].trail)
               /\ "up" \in Range(proc[q].trail)

====
